---- MODULE Spec2Model ----
(***************************************************************************)
(* Model of netlify/functions/ai.ts: the HTTP handler and the recursive    *)
(* model-fallback orchestrator generateWithFallback.                       *)
(*                                                                         *)
(* Text (event.body, response.body) is a sequence of lexical tokens;       *)
(* JSON.parse and JSON.stringify are computed over those tokens.  A        *)
(* falsy / unset JavaScript number (undefined or 0) is written 0.          *)
(***************************************************************************)
EXTENDS Integers, Sequences, FiniteSets, TLC

\* ------------------------------------------------------------------ text
Tok(k, v) == [k |-> k, v |-> v]
LBrace == Tok("{", "")
RBrace == Tok("}", "")
LBrack == Tok("[", "")
RBrack == Tok("]", "")
Colon == Tok(":", "")
Comma == Tok(",", "")
Str(s) == Tok("string", s)
Num(n) == Tok("number", n)
Lit(w) == Tok("literal", w)
Word(w) == Tok("word", w)

\* ------------------------------------------------------- JavaScript values
Val(type, s, members) == [type |-> type, s |-> s, members |-> members]
Undefined == Val("undefined", "", <<>>)
JsNull == Val("null", "", <<>>)
JsString(s) == Val("string", s, <<>>)
JsObject(members) == Val("object", "", members)
Member(key, val) == [key |-> key, val |-> val]

\* JavaScript truthiness, as used by `!prompt` (ai.ts:121)
Truthy(val) ==
  CASE val.type = "undefined" -> FALSE
    [] val.type = "null" -> FALSE
    [] val.type = "boolean" -> val.s = "true"
    [] val.type = "number" -> val.s # "0"
    [] val.type = "string" -> val.s # ""
    [] OTHER -> TRUE

\* ------------------------------------------------------------- JSON.parse
ParseFail == [ok |-> FALSE, next |-> 0, val |-> Undefined]
ParseOk(next, val) == [ok |-> TRUE, next |-> next, val |-> val]

RECURSIVE ParseValue(_, _)
RECURSIVE ParseElements(_, _)
RECURSIVE ParseMembers(_, _, _)

\* one JSON value starting at token i of text t
ParseValue(t, i) ==
  IF i > Len(t) THEN ParseFail
  ELSE LET tok == t[i] IN
    CASE tok.k = "string" -> ParseOk(i + 1, JsString(tok.v))
      [] tok.k = "number" -> ParseOk(i + 1, Val("number", tok.v, <<>>))
      [] tok.k = "literal" /\ tok.v = "null" -> ParseOk(i + 1, JsNull)
      [] tok.k = "literal" /\ tok.v \in {"true", "false"} ->
           ParseOk(i + 1, Val("boolean", tok.v, <<>>))
      [] tok.k = "[" ->
           IF i + 1 <= Len(t) /\ t[i + 1].k = "]"
           THEN ParseOk(i + 2, Val("array", "", <<>>))
           ELSE ParseElements(t, i + 1)
      [] tok.k = "{" ->
           IF i + 1 <= Len(t) /\ t[i + 1].k = "}"
           THEN ParseOk(i + 2, JsObject(<<>>))
           ELSE ParseMembers(t, i + 1, <<>>)
      [] OTHER -> ParseFail

\* the elements of an array after "[", up to and including "]"
ParseElements(t, i) ==
  LET e == ParseValue(t, i) IN
  IF ~e.ok \/ e.next > Len(t) THEN ParseFail
  ELSE IF t[e.next].k = "," THEN ParseElements(t, e.next + 1)
  ELSE IF t[e.next].k = "]" THEN ParseOk(e.next + 1, Val("array", "", <<>>))
  ELSE ParseFail

\* the members of an object after "{", up to and including "}"
ParseMembers(t, i, acc) ==
  IF i + 1 > Len(t) \/ t[i].k # "string" \/ t[i + 1].k # ":" THEN ParseFail
  ELSE LET e == ParseValue(t, i + 2) IN
    IF ~e.ok \/ e.next > Len(t) THEN ParseFail
    ELSE LET all == Append(acc, Member(t[i].v, e.val)) IN
      IF t[e.next].k = "," THEN ParseMembers(t, e.next + 1, all)
      ELSE IF t[e.next].k = "}" THEN ParseOk(e.next + 1, JsObject(all))
      ELSE ParseFail

\* JSON.parse(text): ok = FALSE stands for the SyntaxError it throws
JSONparse(t) ==
  LET r == ParseValue(t, 1) IN
  IF r.ok /\ r.next = Len(t) + 1 THEN r ELSE ParseFail

\* property read val[name] on a non-null value (a later duplicate key wins)
GetProp(val, name) ==
  LET hits == {j \in DOMAIN val.members : val.members[j].key = name} IN
  IF val.type # "object" \/ hits = {} THEN Undefined
  ELSE val.members[CHOOSE j \in hits : \A h \in hits : h <= j].val

\* --------------------------------------------------------- JSON.stringify
StringifyScalar(val) ==
  CASE val.type = "string" -> Str(val.s)
    [] val.type = "number" -> Num(val.s)
    [] val.type = "boolean" -> Lit(val.s)
    [] OTHER -> Lit("null")

RECURSIVE StringifyMembers(_, _)
\* members whose value is undefined are omitted
StringifyMembers(members, first) ==
  IF members = <<>> THEN <<>>
  ELSE LET m == Head(members) IN
    IF m.val.type = "undefined" THEN StringifyMembers(Tail(members), first)
    ELSE (IF first THEN <<>> ELSE <<Comma>>)
         \o <<Str(m.key), Colon, StringifyScalar(m.val)>>
         \o StringifyMembers(Tail(members), FALSE)

\* JSON.stringify of a flat object
JSONstringify(obj) == <<LBrace>> \o StringifyMembers(obj.members, TRUE) \o <<RBrace>>

\* ------------------------------------------------------ program constants
MODELS ==
  << "openai/gpt-oss-120b", "openai/gpt-oss-20b",
     "llama-3.3-70b-versatile", "llama-3.1-8b-instant" >>

CORS_HEADERS ==
  [h \in {"Access-Control-Allow-Origin", "Access-Control-Allow-Headers",
          "Access-Control-Allow-Methods"} |->
     CASE h = "Access-Control-Allow-Origin" -> "*"
       [] h = "Access-Control-Allow-Headers" -> "Content-Type"
       [] OTHER -> "POST, OPTIONS"]

ExhaustionMessage ==
  "All AI models failed due to rate limits, server errors, or invalid model names."

\* ------------------------------------------------------- errors, responses
\* a thrown value: status / statusCode are 0 when the property is not set
Err(status, statusCode, message) ==
  [status |-> status, statusCode |-> statusCode, message |-> message]
\* new Error(message)
Error(message) == Err(0, 0, message)
NoError == Err(0, 0, "")
\* the TypeError of reading a property of null (ai.ts:119 with body = null)
NullPropertyError == Error("Cannot read properties of null (reading 'prompt')")

Response(statusCode, body) ==
  [statusCode |-> statusCode, headers |-> CORS_HEADERS, body |-> body]
NoResponse == [statusCode |-> 0, headers |-> [h \in {} |-> ""], body |-> <<>>]

ErrorBody(message) == JSONstringify(JsObject(<<Member("error", JsString(message))>>))

\* ------------------------------------------------------ provider responses
\* a ChatCompletion: choices is a sequence of [message |-> value]
Completion(choices) == [choices |-> choices]
Choice(message) == [message |-> message]
Message(content) == JsObject(<<Member("content", content)>>)
NoCompletion == Completion(<<>>)

\* what one provider call did
Resolved(chatCompletion) == [ok |-> TRUE, error |-> NoError, completion |-> chatCompletion]
Rejected(error) == [ok |-> FALSE, error |-> error, completion |-> NoCompletion]

\* Content without the `|| ""` default
ContentNoDefault(chatCompletion) ==
  LET choices == chatCompletion.choices
      message == IF choices = <<>> THEN Undefined ELSE choices[1].message
  IN IF message.type \in {"undefined", "null"} THEN Undefined
     ELSE GetProp(message, "content")

\* chatCompletion.choices[0]?.message?.content || ""
Content(chatCompletion) ==
  LET choices == chatCompletion.choices
      message == IF choices = <<>> THEN Undefined ELSE choices[1].message
      content == IF message.type \in {"undefined", "null"} THEN Undefined
                 ELSE GetProp(message, "content")
  IN IF Truthy(content) THEN content ELSE JsString("")

\* StatusOf without the final `|| 500`
StatusOfNoDefault(error) ==
  IF error.status # 0 THEN error.status ELSE error.statusCode

\* error.status || error.statusCode || 500
StatusOf(error) ==
  IF error.status # 0 THEN error.status
  ELSE IF error.statusCode # 0 THEN error.statusCode
  ELSE 500

\* IsRetryable switching on every 4xx and 5xx status
IsRetryableAny4xx5xx(status) == status >= 400 /\ status < 600

\* IsRetryable with the 5xx range starting after 500
IsRetryableAbove500(status) ==
  \/ status = 429
  \/ status = 404
  \/ status = 400
  \/ (status > 500 /\ status < 600)

\* IsRetryable with the 5xx range ending at 600 inclusive
IsRetryableUpTo600(status) ==
  \/ status = 429
  \/ status = 404
  \/ status = 400
  \/ (status >= 500 /\ status <= 600)

\* the statuses on which the next model is tried
IsRetryable(status) ==
  \/ status = 429
  \/ status = 404
  \/ status = 400
  \/ (status >= 500 /\ status < 600)

\* the index of the recursive call
NextIndexSkip(idx) == idx + 2
\* the recursive call retrying the same index
NextIndexSame(idx) == idx
NextIndex(idx) == idx + 1

\* ErrorMessage ignoring the error's own message
ErrorMessageGeneric(error) == "Internal Server Error"

\* error.message || "Internal Server Error"
ErrorMessage(error) ==
  IF error.message # "" THEN error.message ELSE "Internal Server Error"

\* ----------------------------------------------------------------- inputs
\* the invocations of the handler; they may overlap in any way
Reqs == {1, 2}

Methods == {"OPTIONS", "POST", "GET", "PUT"}

TextBody(text) == [isNull |-> FALSE, text |-> text]
\* event.body is null / undefined
NullBody == [isNull |-> TRUE, text |-> <<>>]
PromptBody(tok) == TextBody(<<LBrace, Str("prompt"), Colon, tok, RBrace>>)

\* bodies whose prompt is truthy
ValidBodies == {PromptBody(Str("hi")), PromptBody(Num("7"))}

Bodies ==
  ValidBodies \cup
  { NullBody,
    TextBody(<<>>),
    TextBody(<<Word("undefined")>>),
    TextBody(<<LBrace, Str("prompt"), Colon, Str("hi")>>),
    TextBody(<<LBrace, Str("prompt"), RBrace>>),
    TextBody(<<LBrace, RBrace>>),
    TextBody(<<LBrace, Str("text"), Colon, Str("hi"), RBrace>>),
    TextBody(<<Lit("null")>>),
    TextBody(<<Num("7")>>),
    TextBody(<<Str("hi")>>),
    TextBody(<<LBrack, RBrack>>),
    TextBody(<<LBrack, Str("prompt"), Comma, Str("hi"), RBrack>>),
    PromptBody(Str("")),
    PromptBody(Num("0")),
    PromptBody(Lit("null")),
    PromptBody(Lit("false")) }

Events == [httpMethod : Methods, body : Bodies]
NoEvent == [httpMethod |-> "", body |-> NullBody]

Completions ==
  { Completion(<<>>),
    Completion(<<Choice(Undefined)>>),
    Completion(<<Choice(Message(JsNull))>>),
    Completion(<<Choice(Message(JsString("")))>>),
    Completion(<<Choice(Message(JsString("Hello")))>>) }

ProviderErrors ==
  { Err(429, 0, "Rate limit reached"),
    Err(500, 0, "Internal server error"),
    Err(401, 0, "Invalid API Key"),
    Err(403, 0, "") }

\* the wider set of provider errors: every retryable status, the edges of the
\* 5xx range, more fatal statuses, and errors that set statusCode or nothing
WideErrors ==
  ProviderErrors \cup
  { Err(400, 0, "Bad request"),
    Err(404, 0, "Model not found"),
    Err(599, 0, "Network timeout"),
    Err(422, 0, "Unprocessable"),
    Err(499, 0, "Client closed request"),
    Err(600, 0, "Unknown"),
    Err(401, 500, "Unauthorized"),
    Err(0, 503, "Service unavailable"),
    Err(0, 0, "Connection error.") }

\* ------------------------------------------------------------------ state
VARIABLES
  pc,        \* per request: "idle", "await" (suspended at ai.ts:43), "done"
  event,     \* per request: the event the handler was invoked with
  index,     \* per request: the index of the running generateWithFallback call
  attempts,  \* per request: the provider calls made, [model, prompt], in order
  outcomes,  \* per request: how each provider call ended, in order
  response   \* per request: the response the handler returned

vars == <<pc, event, index, attempts, outcomes, response>>

Init ==
  /\ pc = [r \in Reqs |-> "idle"]
  /\ event = [r \in Reqs |-> NoEvent]
  /\ index = [r \in Reqs |-> 0]
  /\ attempts = [r \in Reqs |-> <<>>]
  /\ outcomes = [r \in Reqs |-> <<>>]
  /\ response = [r \in Reqs |-> NoResponse]

\* DefaultIndex as a cursor kept across invocations
DefaultIndexLeaked ==
  IF \E q \in Reqs : pc[q] = "done" /\ Len(attempts[q]) > 1 THEN 1 ELSE 0

\* the default value of generateWithFallback's index parameter
DefaultIndex == 0

\* the handler returns resp
Respond(r, resp) ==
  /\ pc' = [pc EXCEPT ![r] = "done"]
  /\ response' = [response EXCEPT ![r] = resp]

\* HandlerCatch answering without the CORS headers
HandlerCatchNoCors(r, error) ==
  Respond(r, [statusCode |-> 500, headers |-> [h \in {} |-> ""],
              body |-> JSONstringify(JsObject(
    << Member("error", JsString(ErrorMessage(error))),
       Member("details", JsString("Global failure across all available models.")) >>))])

\* an exception reaches the handler's catch (ai.ts:138-148)
HandlerCatch(r, error) ==
  Respond(r, Response(500, JSONstringify(JsObject(
    << Member("error", JsString(ErrorMessage(error))),
       Member("details", JsString("Global failure across all available models.")) >>))))

\* generateWithFallback giving up one candidate early
generateWithFallbackShort(r, prompt, idx) ==
  IF idx >= Len(MODELS) - 1
  THEN /\ HandlerCatch(r, Error(ExhaustionMessage))
       /\ UNCHANGED <<index, attempts>>
  ELSE /\ index' = [index EXCEPT ![r] = idx]
       /\ attempts' = [attempts EXCEPT ![r] =
            Append(@, [model |-> MODELS[idx + 1], prompt |-> prompt])]
       /\ pc' = [pc EXCEPT ![r] = "await"]
       /\ UNCHANGED response

\* generateWithFallback calling the next candidate along with the current one
generateWithFallbackHedged(r, prompt, idx) ==
  IF idx >= Len(MODELS)
  THEN /\ HandlerCatch(r, Error(ExhaustionMessage))
       /\ UNCHANGED <<index, attempts>>
  ELSE /\ index' = [index EXCEPT ![r] = idx]
       /\ attempts' = [attempts EXCEPT ![r] =
            IF idx + 1 < Len(MODELS)
            THEN @ \o << [model |-> MODELS[idx + 1], prompt |-> prompt],
                         [model |-> MODELS[idx + 2], prompt |-> prompt] >>
            ELSE Append(@, [model |-> MODELS[idx + 1], prompt |-> prompt])]
       /\ pc' = [pc EXCEPT ![r] = "await"]
       /\ UNCHANGED response

\* generateWithFallback keeping its index in one cursor shared by all requests
generateWithFallbackSharedCursor(r, prompt, idx) ==
  IF idx >= Len(MODELS)
  THEN /\ HandlerCatch(r, Error(ExhaustionMessage))
       /\ UNCHANGED <<index, attempts>>
  ELSE /\ index' = [q \in Reqs |-> idx]
       /\ attempts' = [attempts EXCEPT ![r] =
            Append(@, [model |-> MODELS[idx + 1], prompt |-> prompt])]
       /\ pc' = [pc EXCEPT ![r] = "await"]
       /\ UNCHANGED response

\* generateWithFallback(prompt, idx) up to its await (ai.ts:26-48): throws
\* past the end of MODELS, else calls the provider with MODELS[idx]
generateWithFallback(r, prompt, idx) ==
  IF idx >= Len(MODELS)
  THEN /\ HandlerCatch(r, Error(ExhaustionMessage))
       /\ UNCHANGED <<index, attempts>>
  ELSE /\ index' = [index EXCEPT ![r] = idx]
       /\ attempts' = [attempts EXCEPT ![r] =
            Append(@, [model |-> MODELS[idx + 1], prompt |-> prompt])]
       /\ pc' = [pc EXCEPT ![r] = "await"]
       /\ UNCHANGED response

\* IsPreflight answering only a preflight that has no body
IsPreflightNoBody(ev) == ev.httpMethod = "OPTIONS" /\ ev.body.isNull
IsPreflight(ev) == ev.httpMethod = "OPTIONS"

\* MethodNotAllowed letting PUT through
MethodNotAllowedButPut(ev) == ev.httpMethod \notin {"POST", "PUT"}
MethodNotAllowed(ev) == ev.httpMethod # "POST"
\* !event.body
BodyEmpty(ev) == ev.body.isNull \/ ev.body.text = <<>>

\* the handler is invoked with ev and runs to its return or to the first await
Handler(r, ev) ==
  /\ pc[r] = "idle"
  /\ event' = [event EXCEPT ![r] = ev]
  /\ UNCHANGED outcomes
  /\ IF IsPreflight(ev)
       THEN Respond(r, Response(200, <<Word("OK")>>)) /\ UNCHANGED <<index, attempts>>
     ELSE IF MethodNotAllowed(ev)
       THEN /\ Respond(r, Response(405, ErrorBody("Method Not Allowed. Use POST.")))
            /\ UNCHANGED <<index, attempts>>
     ELSE IF BodyEmpty(ev)
       THEN /\ Respond(r, Response(400, ErrorBody("Request body is empty.")))
            /\ UNCHANGED <<index, attempts>>
     ELSE LET body == JSONparse(ev.body.text) IN
       IF ~body.ok
         THEN /\ Respond(r, Response(400, ErrorBody("Invalid JSON in request body.")))
              /\ UNCHANGED <<index, attempts>>
       ELSE IF body.val.type = "null"
         THEN HandlerCatch(r, NullPropertyError) /\ UNCHANGED <<index, attempts>>
       ELSE LET prompt == GetProp(body.val, "prompt") IN
         IF ~Truthy(prompt)
           THEN /\ Respond(r, Response(400, ErrorBody("Missing 'prompt' in request body.")))
                /\ UNCHANGED <<index, attempts>>
         ELSE generateWithFallback(r, prompt, DefaultIndex)

\* Resolve with a per-attempt timeout that moves on to the next candidate
ResolveOrTimeout(r, chatCompletion) ==
  /\ pc[r] = "await"
  /\ \/ /\ outcomes' = [outcomes EXCEPT ![r] = Append(@, Resolved(chatCompletion))]
        /\ Respond(r, Response(200, JSONstringify(JsObject(
             << Member("result", Content(chatCompletion)),
                Member("used_model", JsString(MODELS[index[r] + 1])) >>))))
        /\ UNCHANGED <<event, index, attempts>>
     \/ /\ generateWithFallback(r, attempts[r][Len(attempts[r])].prompt, index[r] + 1)
        /\ UNCHANGED <<event, outcomes>>

\* the awaited provider call resolves (ai.ts:43-53, 130-137)
Resolve(r, chatCompletion) ==
  /\ pc[r] = "await"
  /\ outcomes' = [outcomes EXCEPT ![r] = Append(@, Resolved(chatCompletion))]
  /\ Respond(r, Response(200, JSONstringify(JsObject(
       << Member("result", Content(chatCompletion)),
          Member("used_model", JsString(MODELS[index[r] + 1])) >>))))
  /\ UNCHANGED <<event, index, attempts>>

\* the awaited provider call rejects (ai.ts:54-80)
Reject(r, error) ==
  /\ pc[r] = "await"
  /\ outcomes' = [outcomes EXCEPT ![r] = Append(@, Rejected(error))]
  /\ UNCHANGED event
  /\ IF IsRetryable(StatusOf(error))
       THEN generateWithFallback(r, attempts[r][Len(attempts[r])].prompt, NextIndex(index[r]))
       ELSE HandlerCatch(r, error) /\ UNCHANGED <<index, attempts>>

Next ==
  \E r \in Reqs :
    \/ \E ev \in Events : Handler(r, ev)
    \/ \E chatCompletion \in Completions : Resolve(r, chatCompletion)
    \/ \E error \in ProviderErrors : Reject(r, error)

Spec == Init /\ [][Next]_vars

\* the awaited provider call of request r returns, one way or the other
ProviderReturns(r) ==
  \/ \E chatCompletion \in Completions : Resolve(r, chatCompletion)
  \/ \E error \in ProviderErrors : Reject(r, error)

\* every provider call eventually returns
FairSpec == Spec /\ \A r \in Reqs : WF_vars(ProviderReturns(r))

\* one invocation, served by a provider that may fail with any of WideErrors
NextWide ==
  \/ \E ev \in Events : Handler(1, ev)
  \/ \E chatCompletion \in Completions : Resolve(1, chatCompletion)
  \/ \E error \in WideErrors : Reject(1, error)

SpecWide == Init /\ [][NextWide]_vars

\* ----------------------------------------------------- reading the state
\* the models passed to the provider by request r, in call order
Attempted(r) == [i \in DOMAIN attempts[r] |-> attempts[r][i].model]

\* member `name` of the JSON object in the response body of request r
Field(r, name) == GetProp(JSONparse(response[r].body).val, name)

\* outcome i of request r is a rejection with error.status = status
FailedWith(r, i, status) ==
  ~outcomes[r][i].ok /\ outcomes[r][i].error.status = status

\* request r ended in a 500 with this error message and the fixed details
Answered500(r, message) ==
  /\ pc[r] = "done"
  /\ response[r].statusCode = 500
  /\ Field(r, "error") = JsString(message)
  /\ Field(r, "details") = JsString("Global failure across all available models.")

\* --------------------------------------------------------------------- C1
\* C1: if the attempts for indices 0..k-1 fail with status 429 and the attempt
\* for index k succeeds, the request ends in a success whose used_model is
\* MODELS[k], and the attempted candidates are exactly MODELS[0..k], in order,
\* with no attempt after the success.
C1_FallbackReachesFirstSuccess ==
  \A r \in Reqs : \A k \in 0 .. Len(MODELS) - 1 :
    ( /\ Len(outcomes[r]) > k
      /\ \A i \in 1 .. k : FailedWith(r, i, 429)
      /\ outcomes[r][k + 1].ok )
    => /\ pc[r] = "done"
       /\ response[r].statusCode = 200
       /\ Field(r, "used_model") = JsString(MODELS[k + 1])
       /\ Attempted(r) = SubSeq(MODELS, 1, k + 1)
       /\ Len(outcomes[r]) = k + 1

C1_Witness ==
  \E r \in Reqs :
    /\ Len(outcomes[r]) = 4
    /\ \A i \in 1 .. 3 : FailedWith(r, i, 429)
    /\ outcomes[r][4].ok
    /\ Field(r, "used_model") = JsString("llama-3.1-8b-instant")

\* --------------------------------------------------------------------- C2
\* C2: a provider failure with status 401 on the attempt for index i ends the
\* request at once with that error; no candidate after index i is attempted.
C2_AuthFailureStopsFallback ==
  \A r \in Reqs : \A i \in DOMAIN outcomes[r] :
    FailedWith(r, i, 401)
    => /\ Len(outcomes[r]) = i
       /\ Len(attempts[r]) = i
       /\ Attempted(r) = SubSeq(MODELS, 1, i)
       /\ pc[r] = "done"
       /\ response[r].statusCode = 500
       /\ Field(r, "error") = JsString(outcomes[r][i].error.message)

C2_Witness ==
  /\ \E r \in Reqs :
       /\ pc[r] = "done"
       /\ Len(outcomes[r]) = 1
       /\ FailedWith(r, 1, 401)
       /\ Attempted(r) = <<"openai/gpt-oss-120b">>
  /\ \E r \in Reqs : Len(outcomes[r]) = 3 /\ FailedWith(r, 3, 401)

\* --------------------------------------------------------------------- C3
\* C3: while every attempt so far has failed with status 500 the next
\* candidate in list order is tried, and when all N candidates have failed so
\* the request ends after exactly N attempts with a 500 carrying the fixed
\* exhaustion message and details, not a provider message.
C3_ExhaustionAfterAllFail ==
  \A r \in Reqs :
    ( /\ outcomes[r] # <<>>
      /\ \A i \in DOMAIN outcomes[r] : FailedWith(r, i, 500) )
    => IF Len(outcomes[r]) < 4
       THEN /\ pc[r] = "await"
            /\ Attempted(r) = SubSeq(MODELS, 1, Len(outcomes[r]) + 1)
       ELSE /\ Len(outcomes[r]) = 4
            /\ Attempted(r) =
                 << "openai/gpt-oss-120b", "openai/gpt-oss-20b",
                    "llama-3.3-70b-versatile", "llama-3.1-8b-instant" >>
            /\ Answered500(r,
                 "All AI models failed due to rate limits, server errors, or invalid model names.")
            /\ \A i \in 1 .. 4 :
                 Field(r, "error") # JsString(outcomes[r][i].error.message)

C3_Witness ==
  \E r \in Reqs :
    /\ pc[r] = "done"
    /\ Len(outcomes[r]) = 4
    /\ \A i \in 1 .. 4 : FailedWith(r, i, 500)
    /\ response[r].statusCode = 500

\* --------------------------------------------------------------------- C4
\* C4: every POST gets a 400: "Request body is empty." for an empty or missing
\* body, "Invalid JSON in request body." for a body that does not parse, and
\* "Missing 'prompt' in request body." for every body that parses but has no
\* prompt field (null, a number, a string, an array, an object without it).
C4_BodyErrorsAre400 ==
  \A r \in Reqs :
    (pc[r] = "done" /\ event[r].httpMethod = "POST")
    => LET text == event[r].body.text
           empty == event[r].body.isNull \/ text = <<>>
           parsed == JSONparse(text)
           noPrompt == \/ parsed.val.type # "object"
                       \/ \A j \in DOMAIN parsed.val.members :
                            parsed.val.members[j].key # "prompt"
       IN /\ empty => /\ response[r].statusCode = 400
                      /\ Field(r, "error") = JsString("Request body is empty.")
          /\ (~empty /\ ~parsed.ok)
               => /\ response[r].statusCode = 400
                  /\ Field(r, "error") = JsString("Invalid JSON in request body.")
          /\ (~empty /\ parsed.ok /\ noPrompt)
               => /\ response[r].statusCode = 400
                  /\ Field(r, "error") = JsString("Missing 'prompt' in request body.")

\* --------------------------------------------------------------------- C5
\* C5: a provider success without message content (no choices, no message,
\* null or empty content) ends the request in a 200 whose result is the empty
\* string and whose used_model is the candidate of that attempt; no further
\* candidate is attempted.
C5_NoContentIsEmptySuccess ==
  \A r \in Reqs : \A i \in DOMAIN outcomes[r] :
    LET c == outcomes[r][i].completion IN
    ( /\ outcomes[r][i].ok
      /\ \/ c.choices = <<>>
         \/ c.choices[1].message.type = "undefined"
         \/ c.choices[1].message.members[1].val.type = "null"
         \/ c.choices[1].message.members[1].val = JsString("") )
    => /\ pc[r] = "done"
       /\ response[r].statusCode = 200
       /\ Field(r, "result") = JsString("")
       /\ Field(r, "used_model") = JsString(MODELS[i])
       /\ Len(outcomes[r]) = i
       /\ Len(attempts[r]) = i

C5_Witness ==
  /\ pc[1] = "done" /\ Len(outcomes[1]) = 2 /\ outcomes[1][2].ok
  /\ outcomes[1][2].completion.choices = <<>>
  /\ pc[2] = "done" /\ Len(outcomes[2]) = 1 /\ outcomes[2][1].ok
  /\ outcomes[2][1].completion.choices # <<>>
  /\ outcomes[2][1].completion.choices[1].message.type = "object"
  /\ outcomes[2][1].completion.choices[1].message.members[1].val.type = "null"
  /\ Field(1, "result") = JsString("") /\ Field(2, "result") = JsString("")

\* --------------------------------------------------------------------- C6
\* C6: a request whose method is neither POST nor OPTIONS gets a 405 with
\* error "Method Not Allowed. Use POST.", whatever its body, and no provider
\* attempt is made.
C6_OtherMethodsGet405 ==
  \A r \in Reqs :
    (pc[r] # "idle" /\ event[r].httpMethod \notin {"POST", "OPTIONS"})
    => /\ pc[r] = "done"
       /\ response[r].statusCode = 405
       /\ Field(r, "error") = JsString("Method Not Allowed. Use POST.")
       /\ attempts[r] = <<>>
       /\ outcomes[r] = <<>>

C6_Witness ==
  /\ pc[1] = "done" /\ event[1].httpMethod = "GET" /\ event[1].body.isNull
  /\ pc[2] = "done" /\ event[2].httpMethod = "PUT"
  /\ JSONparse(event[2].body.text).ok
  /\ Truthy(GetProp(JSONparse(event[2].body.text).val, "prompt"))
  /\ response[2].statusCode = 405

\* --------------------------------------------------------------------- C7
\* C7: an OPTIONS request gets a 200 with body "OK" whatever its body (empty,
\* malformed, without prompt, with a valid prompt), and no provider attempt
\* is made.
C7_OptionsGets200 ==
  \A r \in Reqs :
    (pc[r] # "idle" /\ event[r].httpMethod = "OPTIONS")
    => /\ pc[r] = "done"
       /\ response[r].statusCode = 200
       /\ response[r].body = <<Word("OK")>>
       /\ attempts[r] = <<>>
       /\ outcomes[r] = <<>>

C7_Witness ==
  /\ pc[1] = "done" /\ event[1].httpMethod = "OPTIONS"
  /\ ~event[1].body.isNull /\ ~JSONparse(event[1].body.text).ok
  /\ pc[2] = "done" /\ event[2].httpMethod = "OPTIONS"
  /\ Truthy(GetProp(JSONparse(event[2].body.text).val, "prompt"))
  /\ response[2].body = <<Word("OK")>>

\* --------------------------------------------------------------------- C8
\* C8: every response the handler returns, on every path, carries the same
\* three CORS headers: Access-Control-Allow-Origin: *,
\* Access-Control-Allow-Headers: Content-Type and
\* Access-Control-Allow-Methods: POST, OPTIONS.
C8_EveryResponseHasCors ==
  \A r \in Reqs :
    pc[r] = "done"
    => /\ DOMAIN response[r].headers =
            { "Access-Control-Allow-Origin", "Access-Control-Allow-Headers",
              "Access-Control-Allow-Methods" }
       /\ response[r].headers["Access-Control-Allow-Origin"] = "*"
       /\ response[r].headers["Access-Control-Allow-Headers"] = "Content-Type"
       /\ response[r].headers["Access-Control-Allow-Methods"] = "POST, OPTIONS"

C8_Witness ==
  /\ pc[1] = "done" /\ response[1].statusCode = 500 /\ Len(outcomes[1]) = 4
  /\ pc[2] = "done" /\ response[2].statusCode = 500 /\ Len(outcomes[2]) = 1
  /\ DOMAIN response[1].headers = DOMAIN response[2].headers
  /\ DOMAIN response[1].headers # {}

\* --------------------------------------------------------------------- C9
\* C9: a provider error whose status is outside the retryable set (401, 403,
\* ...) on any attempt ends the request in a 500 whose error field is that
\* error's own message, or "Internal Server Error" when the message is empty.
C9_FatalErrorKeepsItsMessage ==
  \A r \in Reqs : \A i \in DOMAIN outcomes[r] :
    LET e == outcomes[r][i].error IN
    ( /\ ~outcomes[r][i].ok
      /\ e.status # 0
      /\ e.status \notin {400, 404, 429}
      /\ ~(e.status >= 500 /\ e.status <= 599) )
    => /\ Len(outcomes[r]) = i
       /\ Answered500(r, IF e.message = "" THEN "Internal Server Error" ELSE e.message)

C9_Witness ==
  /\ Len(outcomes[1]) = 3 /\ FailedWith(1, 3, 401)
  /\ Field(1, "error") = JsString("Invalid API Key")
  /\ Len(outcomes[2]) = 1 /\ FailedWith(2, 1, 403)
  /\ outcomes[2][1].error.message = ""
  /\ Field(2, "error") = JsString("Internal Server Error")

\* -------------------------------------------------------------------- C10
\* the provider answered as a function of (prompt, model) over the calls of
\* requests r and q
Deterministic(r, q) ==
  \A i \in DOMAIN outcomes[r] : \A j \in DOMAIN outcomes[q] :
    attempts[r][i] = attempts[q][j] => outcomes[r][i] = outcomes[q][j]

\* C10: two invocations with the same event, served by a provider whose
\* outcome is a function of (prompt, model), return the same response and
\* attempt the same candidates in the same order.
C10_SameRequestSameResponse ==
  \A r \in Reqs : \A q \in Reqs :
    ( /\ pc[r] = "done" /\ pc[q] = "done"
      /\ event[r] = event[q]
      /\ Deterministic(r, q) )
    => /\ response[r] = response[q]
       /\ attempts[r] = attempts[q]

C10_Witness ==
  /\ pc[1] = "done" /\ pc[2] = "done"
  /\ event[1] = event[2]
  /\ Deterministic(1, 2)
  /\ Len(outcomes[1]) = 3 /\ Len(outcomes[2]) = 3
  /\ response[1].statusCode = 200

\* -------------------------------------------------------------------- C11
\* C11: after a failed attempt at index i whose error carries a status, the
\* very next candidate (index i+1, or the exhaustion error past the last one)
\* is tried if and only if the status is 400, 404, 429 or in 500..599; for
\* every other status the error is raised with no further attempt.
C11_ClassificationByStatus ==
  \A r \in Reqs : \A i \in DOMAIN outcomes[r] :
    LET e == outcomes[r][i].error IN
    (~outcomes[r][i].ok /\ e.status # 0)
    => /\ attempts[r][i].model = MODELS[i]
       /\ IF e.status \in {400, 404, 429} \/ (e.status >= 500 /\ e.status <= 599)
          THEN IF i < 4
               THEN /\ Len(attempts[r]) > i
                    /\ attempts[r][i + 1].model = MODELS[i + 1]
                    /\ attempts[r][i + 1].model # attempts[r][i].model
               ELSE /\ Len(attempts[r]) = 4
                    /\ Answered500(r,
                         "All AI models failed due to rate limits, server errors, or invalid model names.")
          ELSE /\ Len(attempts[r]) = i
               /\ Len(outcomes[r]) = i
               /\ Answered500(r, ErrorMessage(e))

C11_Witness ==
  /\ pc[1] = "done"
  /\ Len(outcomes[1]) = 4
  /\ FailedWith(1, 1, 400)
  /\ FailedWith(1, 2, 404)
  /\ FailedWith(1, 3, 599)
  /\ FailedWith(1, 4, 600)
  /\ Field(1, "error") = JsString("Unknown")

\* -------------------------------------------------------------------- C12
\* C12: a request ends with the exhaustion error only after all N candidates
\* were attempted once each, in order, and each attempt failed with a status
\* classified as retryable.
C12_ExhaustionOnlyAfterAll ==
  \A r \in Reqs :
    ( /\ pc[r] = "done"
      /\ response[r].statusCode = 500
      /\ Field(r, "error") = JsString(
           "All AI models failed due to rate limits, server errors, or invalid model names.") )
    => /\ Attempted(r) =
            << "openai/gpt-oss-120b", "openai/gpt-oss-20b",
               "llama-3.3-70b-versatile", "llama-3.1-8b-instant" >>
       /\ Len(outcomes[r]) = 4
       /\ \A i \in 1 .. 4 :
            LET e == outcomes[r][i].error
                status == IF e.status # 0 THEN e.status
                          ELSE IF e.statusCode # 0 THEN e.statusCode ELSE 500
            IN /\ ~outcomes[r][i].ok
               /\ status \in {400, 404, 429} \/ (status >= 500 /\ status <= 599)

C12_Witness ==
  /\ pc[1] = "done"
  /\ Len(outcomes[1]) = 4
  /\ FailedWith(1, 1, 429)
  /\ FailedWith(1, 2, 404)
  /\ outcomes[1][3].error = Err(0, 503, "Service unavailable")
  /\ FailedWith(1, 4, 599)
  /\ Field(1, "error") = JsString(
       "All AI models failed due to rate limits, server errors, or invalid model names.")

\* -------------------------------------------------------------------- C13
\* C13: in every reachable state the candidates attempted so far by a request
\* are a prefix of the candidate list, in list order and without duplicates;
\* no other model identifier is passed to the provider.
C13_AttemptsArePrefix ==
  \A r \in Reqs :
    /\ Len(attempts[r]) <= 4
    /\ Attempted(r) =
         SubSeq(<< "openai/gpt-oss-120b", "openai/gpt-oss-20b",
                   "llama-3.3-70b-versatile", "llama-3.1-8b-instant" >>,
                1, Len(attempts[r]))
    /\ \A i \in DOMAIN attempts[r] : \A j \in DOMAIN attempts[r] :
         i # j => attempts[r][i].model # attempts[r][j].model

C13_Witness ==
  /\ Len(attempts[1]) = 4 /\ pc[1] = "await"
  /\ Len(attempts[2]) = 2 /\ pc[2] = "done"

\* -------------------------------------------------------------------- C14
\* C14: a request has at most one provider call in flight, exactly while it
\* is suspended at the await; every call but the latest has completed with a
\* failure before the next one was started.
C14_OneAttemptInFlight ==
  \A r \in Reqs :
    LET inflight == Len(attempts[r]) - Len(outcomes[r]) IN
    /\ inflight \in {0, 1}
    /\ inflight = 1 <=> pc[r] = "await"
    /\ \A i \in 1 .. Len(attempts[r]) - 1 :
         i <= Len(outcomes[r]) /\ ~outcomes[r][i].ok

C14_Witness ==
  /\ pc[1] = "await" /\ Len(attempts[1]) = 3 /\ Len(outcomes[1]) = 2
  /\ pc[2] = "await" /\ Len(attempts[2]) = 1 /\ Len(outcomes[2]) = 0

\* -------------------------------------------------------------------- C15
\* C15: a request with a wrong method, or a POST whose body is empty, does
\* not parse or lacks a prompt, makes no provider attempt and is answered
\* with a 4xx status.
C15_InputErrorsAre4xx ==
  \A r \in Reqs :
    LET text == event[r].body.text
        parsed == JSONparse(text)
        noPrompt == \/ parsed.val.type # "object"
                    \/ \A j \in DOMAIN parsed.val.members :
                         parsed.val.members[j].key # "prompt"
    IN ( /\ pc[r] # "idle"
         /\ event[r].httpMethod # "OPTIONS"
         /\ \/ event[r].httpMethod # "POST"
            \/ event[r].body.isNull
            \/ text = <<>>
            \/ ~parsed.ok
            \/ noPrompt )
       => /\ attempts[r] = <<>>
          /\ pc[r] = "done"
          /\ response[r].statusCode >= 400
          /\ response[r].statusCode <= 499

\* -------------------------------------------------------------------- C16
\* C16: every prompt passed to the provider is a non-empty string.
C16_PromptIsNonEmptyString ==
  \A r \in Reqs : \A i \in DOMAIN attempts[r] :
    /\ attempts[r][i].prompt.type = "string"
    /\ attempts[r][i].prompt.s # ""

\* -------------------------------------------------------------------- C17
\* C17: when every provider call eventually returns, every request that
\* reached the provider eventually gets its response, after at most N
\* provider attempts, and that response is never replaced by another.
C17_Termination ==
  /\ [](\A r \in Reqs : Len(attempts[r]) <= 4)
  /\ \A r \in Reqs : (pc[r] = "await") ~> (pc[r] = "done")
  /\ [][\A r \in Reqs :
          pc[r] = "done" => (pc'[r] = "done" /\ response'[r] = response[r])]_vars

C17_Witness ==
  /\ pc[1] = "done" /\ Len(attempts[1]) = 4 /\ response[1].statusCode = 200
  /\ pc[2] = "done" /\ Len(attempts[2]) = 4 /\ response[2].statusCode = 500

\* -------------------------------------------------------------------- C18
\* C18: as long as the pending provider call of a request has not returned,
\* the request stays suspended on it: no later candidate is attempted and no
\* response is produced, whatever else happens.
C18_BlockedWhileCallPending ==
  [][\A r \in Reqs :
       (pc[r] = "await" /\ outcomes'[r] = outcomes[r])
       => /\ pc'[r] = "await"
          /\ attempts'[r] = attempts[r]
          /\ index'[r] = index[r]
          /\ response'[r] = NoResponse]_vars

C18_Witness ==
  /\ pc[1] = "await" /\ Len(attempts[1]) = 2 /\ response[1] = NoResponse
  /\ pc[2] = "done" /\ Len(outcomes[2]) = 4

\* -------------------------------------------------------------------- C19
\* everything the model keeps for request r
ReqState(r) == <<pc[r], event[r], index[r], attempts[r], outcomes[r], response[r]>>

\* C19: under every interleaving each request starts at MODELS[0] and walks
\* its own cursor, a step of one request changes nothing of another, and two
\* requests with the same event and the same provider outcomes end with the
\* same response and attempts.
C19_NoInterference ==
  /\ [](\A r \in Reqs :
          /\ attempts[r] # <<>> => attempts[r][1].model = "openai/gpt-oss-120b"
          /\ pc[r] = "await"
               => /\ index[r] = Len(attempts[r]) - 1
                  /\ index[r] = Len(outcomes[r])
          /\ \A q \in Reqs :
               (pc[r] = "done" /\ pc[q] = "done" /\ event[r] = event[q]
                  /\ outcomes[r] = outcomes[q])
               => (response[r] = response[q] /\ attempts[r] = attempts[q]))
  /\ [][\A r \in Reqs : \A q \in Reqs \ {r} :
          ReqState(r)' # ReqState(r) => ReqState(q)' = ReqState(q)]_vars

C19_Witness ==
  /\ pc[1] = "await" /\ index[1] = 0 /\ Len(attempts[1]) = 1
  /\ pc[2] = "await" /\ index[2] = 3 /\ Len(outcomes[2]) = 3
  /\ event[1] = event[2]

\* -------------------------------------------------------------------- C20
\* C20: a provider failure that sets neither status nor statusCode is treated
\* as retryable: the next candidate is tried, and past the last candidate the
\* request ends with the exhaustion error, not with the failure's message.
C20_NoStatusIsRetried ==
  \A r \in Reqs : \A i \in DOMAIN outcomes[r] :
    LET e == outcomes[r][i].error IN
    (~outcomes[r][i].ok /\ e.status = 0 /\ e.statusCode = 0)
    => IF i < 4
       THEN /\ Len(attempts[r]) > i
            /\ attempts[r][i + 1].model = MODELS[i + 1]
       ELSE /\ Answered500(r,
                 "All AI models failed due to rate limits, server errors, or invalid model names.")
            /\ Field(r, "error") # JsString(e.message)

C20_Witness ==
  /\ pc[1] = "done"
  /\ Len(outcomes[1]) = 4
  /\ \A i \in 1 .. 4 : outcomes[1][i] = Rejected(Err(0, 0, "Connection error."))
  /\ response[1].statusCode = 500

====
